---- MODULE Spec2Model ----
(***************************************************************************)
(* The xplr.util scripting bridge (src/lua/util.rs): six functions a Lua   *)
(* script can call.  Text is modelled as a sequence of one-character       *)
(* strings.  The external world (current working directory, the operating  *)
(* system's answer to a spawn, the traversal collaborator's answer) is     *)
(* state or input of the model; the bridge itself keeps no state.          *)
(***************************************************************************)
EXTENDS Integers, Sequences, FiniteSets, TLC

(***************************************************************************)
(* Bounds of the model.                                                    *)
(***************************************************************************)
MaxPathLen == 5
MaxQuoteLen == 4
MaxOutLen == 2

(***************************************************************************)
(* Text helpers.                                                           *)
(***************************************************************************)
BSeq(S, n) == UNION {[1..k -> S] : k \in 0..n}

\* Option<T>: None is the empty sequence, Some(v) the one-element sequence.
None == <<>>

Some(v) == <<v>>

SEP == "/"

DOT == "."

\* The index of the last separator of s, or 0 (slice::rposition).
RECURSIVE rposition(_, _)
rposition(s, i) ==
  IF i = 0 THEN 0
  ELSE IF s[i] = SEP THEN i ELSE rposition(s, i - 1)

\* The segments of s between separators (empty segments kept).
RECURSIVE Split(_)
Split(s) ==
  LET i == rposition(s, Len(s))
  IN IF i = 0 THEN <<s>>
     ELSE Append(Split(SubSeq(s, 1, i - 1)), SubSeq(s, i + 1, Len(s)))

(***************************************************************************)
(* std::path::components on Unix, as Path::parent, Path::file_name and     *)
(* Path::components use it.                                                *)
(***************************************************************************)
RootDir == [kind |-> "RootDir", name |-> <<SEP>>]

CurDir == [kind |-> "CurDir", name |-> <<DOT>>]

ParentDir == [kind |-> "ParentDir", name |-> <<DOT, DOT>>]

Normal(n) == [kind |-> "Normal", name |-> n]

NoComp == [kind |-> "None", name |-> <<>>]

\* has_physical_root
has_physical_root(p) == Len(p) > 0 /\ p[1] = SEP

\* Components::include_cur_dir: a leading "." of a relative path is kept.
include_cur_dir(p) ==
  /\ ~has_physical_root(p)
  /\ Len(p) >= 1
  /\ p[1] = DOT
  /\ (Len(p) = 1 \/ p[2] = SEP)

\* Components::len_before_body with front = Prefix.
len_before_body(p) ==
  (IF has_physical_root(p) THEN 1 ELSE 0) + (IF include_cur_dir(p) THEN 1 ELSE 0)

\* Components::parse_single_component: "." and "" are normalised away.
parse_single_component(c) ==
  IF c = <<DOT>> \/ c = <<>> THEN NoComp
  ELSE IF c = <<DOT, DOT>> THEN ParentDir
  ELSE Normal(c)

\* Components::parse_next_component_back: (size, component).
parse_next_component_back(p) ==
  LET start == len_before_body(p)
      body == SubSeq(p, start + 1, Len(p))
      i == rposition(body, Len(body))
      comp == IF i = 0 THEN body ELSE SubSeq(body, i + 1, Len(body))
  IN [size |-> Len(comp) + (IF i = 0 THEN 0 ELSE 1), comp |-> parse_single_component(comp)]

\* Components::next_back on a fresh iterator: the component, what is left of
\* the path, and the back state.
RECURSIVE next_back(_)
next_back(p) ==
  IF Len(p) > len_before_body(p)
  THEN LET r == parse_next_component_back(p)
           rest == SubSeq(p, 1, Len(p) - r.size)
       IN IF r.comp # NoComp
          THEN [comp |-> r.comp, path |-> rest, back |-> "Body"]
          ELSE next_back(rest)
  ELSE IF has_physical_root(p)
       THEN [comp |-> RootDir, path |-> SubSeq(p, 1, Len(p) - 1), back |-> "Prefix"]
       ELSE IF include_cur_dir(p)
            THEN [comp |-> CurDir, path |-> SubSeq(p, 1, Len(p) - 1), back |-> "Prefix"]
            ELSE [comp |-> NoComp, path |-> p, back |-> "Done"]

\* Components::trim_right
RECURSIVE trim_right(_)
trim_right(p) ==
  IF Len(p) > len_before_body(p)
  THEN LET r == parse_next_component_back(p)
       IN IF r.comp # NoComp THEN p
          ELSE trim_right(SubSeq(p, 1, Len(p) - r.size))
  ELSE p

\* Components::as_path after next_back (front is still Prefix).
as_path(it) == IF it.back = "Body" THEN trim_right(it.path) ELSE it.path

\* Faulty variant: an empty parent is reported as no parent.
parent_none_if_empty(p) ==
  LET it == next_back(p)
  IN IF it.comp.kind \in {"Normal", "CurDir", "ParentDir"} /\ as_path(it) # <<>>
     THEN Some(as_path(it))
     ELSE None

\* Path::parent
parent(p) ==
  LET it == next_back(p)
  IN IF it.comp.kind \in {"Normal", "CurDir", "ParentDir"}
     THEN Some(as_path(it))
     ELSE None

\* Faulty variant: the last component is returned whatever its kind.
file_name_of_any(p) ==
  LET it == next_back(p)
  IN IF it.comp.kind \in {"Normal", "ParentDir"} THEN Some(it.comp.name) ELSE None

\* Path::file_name
file_name(p) ==
  LET it == next_back(p)
  IN IF it.comp.kind = "Normal" THEN Some(it.comp.name) ELSE None

\* The components of the body of a path, front to back.
RECURSIVE ParseBody(_)
ParseBody(segs) ==
  IF segs = <<>> THEN <<>>
  ELSE LET c == parse_single_component(Head(segs))
       IN (IF c = NoComp THEN <<>> ELSE <<c>>) \o ParseBody(Tail(segs))

\* Path::components, front to back.
components(p) ==
  (IF has_physical_root(p) THEN <<RootDir>>
   ELSE IF include_cur_dir(p) THEN <<CurDir>> ELSE <<>>)
  \o (IF p = <<>> THEN <<>> ELSE ParseBody(Split(p)))

(***************************************************************************)
(* path_absolutize::absolutize for Path on Unix (absolutize_from), which   *)
(* absolute calls through absolutize.                                      *)
(***************************************************************************)
\* Path::iter: the components as text.
RECURSIVE Names(_)
Names(cs) == IF cs = <<>> THEN <<>> ELSE <<Head(cs).name>> \o Names(Tail(cs))

FirstIsRoot(tokens) == tokens # <<>> /\ tokens[1] = <<SEP>>

\* The tokens so far, first_is_root and has_change.
TokenState(tokens, root, change) == [tokens |-> tokens, root |-> root, change |-> change]

\* The tokens start with those of the directory d.
FromDir(d) == TokenState(d, FirstIsRoot(d), TRUE)

\* The first component is "..": the tokens start with those of cwd's parent.
FromParentOf(par, cwd) ==
  IF par # None THEN FromDir(Names(components(par[1])))
  ELSE IF cwd = <<SEP>> THEN TokenState(<<<<SEP>>>>, TRUE, TRUE)
  ELSE TokenState(<<>>, FALSE, TRUE)

\* The first component is a name: cwd's tokens, then the name.
FromDirThen(d, name) == TokenState(Append(d, name), FirstIsRoot(d), TRUE)

\* The tokens, first_is_root and has_change after the first component.
FirstTokens(first, cwd) ==
  IF first.kind = "RootDir" THEN TokenState(<<<<SEP>>>>, TRUE, FALSE)
  ELSE IF first.kind = "CurDir" THEN FromDir(Names(components(cwd)))
  ELSE IF first.kind = "ParentDir" THEN FromParentOf(parent(cwd), cwd)
  ELSE FromDirThen(Names(components(cwd)), first.name)

\* Faulty variant: ".." after the first component removes nothing.
StepTokensNoPop(st, c, n) ==
  IF c.kind \in {"CurDir", "ParentDir"} THEN [st EXCEPT !.change = TRUE]
  ELSE [st EXCEPT !.tokens = Append(st.tokens, c.name)]

\* One later component applied to the tokens.
StepTokens(st, c, n) ==
  IF c.kind = "CurDir" THEN [st EXCEPT !.change = TRUE]
  ELSE IF c.kind = "ParentDir"
  THEN [st EXCEPT !.change = TRUE,
                  !.tokens = IF n > 0 /\ (n # 1 \/ ~st.root)
                             THEN SubSeq(st.tokens, 1, n - 1)
                             ELSE st.tokens]
  ELSE [st EXCEPT !.tokens = Append(st.tokens, c.name)]

\* The loop over the remaining components.
RECURSIVE RestTokens(_, _)
RestTokens(st, cs) ==
  IF cs = <<>> THEN st
  ELSE RestTokens(StepTokens(st, Head(cs), Len(st.tokens)), Tail(cs))

RECURSIVE SumLen(_)
SumLen(tokens) ==
  IF tokens = <<>> THEN 0 ELSE Len(Head(tokens)) + SumLen(Tail(tokens))

\* tokens[from..to], each followed by a separator.
RECURSIVE JoinMiddle(_, _, _)
JoinMiddle(tokens, from, to) ==
  IF from > to THEN <<>>
  ELSE tokens[from] \o <<SEP>> \o JoinMiddle(tokens, from + 1, to)

\* The path string built from the tokens.
JoinTokens(tokens, root) ==
  IF Len(tokens) = 1 THEN tokens[1]
  ELSE tokens[1] \o (IF root THEN <<>> ELSE <<SEP>>)
       \o JoinMiddle(tokens, 2, Len(tokens) - 1) \o tokens[Len(tokens)]

\* The size the rebuilt path would have.
TokensSize(tokens, root, n) ==
  (n - 1) + SumLen(tokens) - (IF root /\ n > 1 THEN 1 ELSE 0)

\* The path is rebuilt from the tokens when anything changed.
Rebuild(p, st) ==
  IF st.change \/ TokensSize(st.tokens, st.root, Len(st.tokens)) # Len(p)
  THEN JoinTokens(st.tokens, st.root)
  ELSE p

\* absolutize_from with the components of the path.
absolutize_components(p, cs, cwd) ==
  IF cs = <<>> THEN cwd
  ELSE Rebuild(p, RestTokens(FirstTokens(Head(cs), cwd), Tail(cs)))

\* Path::absolutize_from(cwd)
absolutize_from(p, cwd) == absolutize_components(p, components(p), cwd)

\* io::Result
Ok(v) == [ok |-> TRUE, v |-> v]

Err(e) == [ok |-> FALSE, err |-> e]

\* Path::absolutize: the working directory is looked up first
\* (std::env::current_dir()?), then absolutize_from.
absolutize(p, currentDir) ==
  IF currentDir = None THEN Err("io: current directory")
  ELSE Ok(absolutize_from(p, currentDir[1]))

(***************************************************************************)
(* shell_quote's string operations.                                        *)
(***************************************************************************)
SQ == "'"

DQ == "\""

\* Faulty variant: the four-character escape '\'' with its quotes misplaced.
QuoteEscapeBackslash == <<SQ, "\\", SQ, SQ>>

\* The replacement r#"'"'"'"# of util.rs:170.
QuoteEscape == <<SQ, DQ, SQ, DQ, SQ>>

\* str::replace(char, &str)
RECURSIVE replace(_, _, _)
replace(s, c, rep) ==
  IF s = <<>> THEN <<>>
  ELSE (IF Head(s) = c THEN rep ELSE <<Head(s)>>) \o replace(Tail(s), c, rep)

\* Faulty variant: the single quotes of the input are not replaced.
ShellQuoteTextUnescaped(string) == <<SQ>> \o string \o <<SQ>>

\* format!("'{}'", string.replace('\'', r#"'"'"'"#))
ShellQuoteText(string) == <<SQ>> \o replace(string, SQ, QuoteEscape) \o <<SQ>>

(***************************************************************************)
(* Values crossing the scripting boundary, and the outcome of a call.      *)
(***************************************************************************)
LuaNil == [kind |-> "nil"]

LuaString(t) == [kind |-> "string", value |-> t]

LuaInteger(n) == [kind |-> "integer", n |-> n]

LuaTable(t) == [kind |-> "table", fields |-> t]

\* Option<T> as a Lua value: None is nil.
OptionToLua(o) == IF o = None THEN LuaNil ELSE LuaString(o[1])

\* Ok(value) of a registered function: the script gets the value.
Return(v) == [raised |-> FALSE, value |-> v]

\* Err(e) of a registered function (also by ?): the script gets an error.
Raise(e) == [raised |-> TRUE, value |-> [kind |-> "error", message |-> e]]

\* Table::set: setting a key to nil leaves the key absent.
TableSet(t, k, v) ==
  IF v = LuaNil THEN [x \in DOMAIN t \ {k} |-> t[x]]
  ELSE [x \in DOMAIN t \cup {k} |-> IF x = k THEN v ELSE t[x]]

EmptyTable == [x \in {} |-> LuaNil]

\* The function table create_table builds.
util == {"dirname", "basename", "absolute", "explore", "shell_execute", "shell_quote"}

(***************************************************************************)
(* The bodies of the registered functions.                                 *)
(***************************************************************************)
\* dirname: PathBuf::from(path).parent().map(to_string_lossy); path is a
\* String, so the lossy conversion changes nothing.
dirname_func(path) == Return(OptionToLua(parent(path)))

\* basename: PathBuf::from(path).file_name().map(to_string_lossy)
basename_func(path) == Return(OptionToLua(file_name(path)))

\* absolute: PathBuf::from(path).absolutize()?.to_string_lossy()
\* ? on the io::Result, then the text of the path.
absolute_result(r) == IF r.ok THEN Return(LuaString(r.v)) ELSE Raise(r.err)

absolute_func(path, currentDir) == absolute_result(absolutize(path, currentDir))

\* shell_quote
shell_quote_func(string) == Return(LuaString(ShellQuoteText(string)))

(***************************************************************************)
(* shell_execute: the operating system's answer to Command::output() is    *)
(* an input: Err(io error) when the program cannot be launched, or         *)
(* Ok(Output) with the exit status and the captured bytes.                 *)
(***************************************************************************)
BAD == "\\xFF"

REPLACEMENT == "U+FFFD"

OutBytes == {"a", BAD}

Exited(c) == [kind |-> "exited", n |-> c]

Signaled(n) == [kind |-> "signaled", n |-> n]

ExitStatuses == {Exited(0), Exited(1), Exited(255), Signaled(9)}

SpawnErrors == {"NotFound", "PermissionDenied"}

Outputs(n) ==
  [status : ExitStatuses, stdout : BSeq(OutBytes, n), stderr : BSeq(OutBytes, n)]

OsAnswers(n) == {Err(e) : e \in SpawnErrors} \cup {Ok(o) : o \in Outputs(n)}

\* String::from_utf8_lossy: each invalid byte becomes U+FFFD.
from_utf8_lossy(bytes) ==
  [i \in DOMAIN bytes |-> IF bytes[i] = BAD THEN REPLACEMENT ELSE bytes[i]]

\* Faulty variant: a child ended by a signal gets the code -1.
code_or_sentinel(status) == IF status.kind = "exited" THEN Some(status.n) ELSE Some(-1)

\* ExitStatus::code
code(status) == IF status.kind = "exited" THEN Some(status.n) ELSE None

\* Option<i32> as a Lua value.
CodeToLua(o) == IF o = None THEN LuaNil ELSE LuaInteger(o[1])

\* The table built from an Output.
ProcessResult(output) ==
  TableSet(
    TableSet(
      TableSet(EmptyTable, "stdout", LuaString(from_utf8_lossy(output.stdout))),
      "stderr", LuaString(from_utf8_lossy(output.stderr))),
    "returncode", CodeToLua(code(output.status)))

\* Faulty variant: a non-zero exit status is raised as an error.
shell_execute_func_checked(answer) ==
  IF ~answer.ok THEN Raise(answer.err)
  ELSE IF answer.v.status # Exited(0) THEN Raise("exit status")
  ELSE Return(LuaTable(ProcessResult(answer.v)))

\* shell_execute's body given cmd_ref.output().
shell_execute_func(answer) ==
  IF ~answer.ok THEN Raise(answer.err)
  ELSE Return(LuaTable(ProcessResult(answer.v)))

(***************************************************************************)
(* explore: the configuration table, its conversion, the collaborator.     *)
(***************************************************************************)
ConfigKeys == {"sorters", "bogus"}

ValueKinds == {"sequence", "number"}

\* A scripting table: keys present, each with the kind of its value.
ConfigTables == UNION {[K -> ValueKinds] : K \in SUBSET ConfigKeys}

\* The fields of ExplorerConfig this model knows, each with the kind it takes.
ConfigSchema == [sorters |-> "sequence"]

\* ExplorerConfig::default()
DefaultConfig == [sorters |-> "default"]

\* lua.from_value into ExplorerConfig: unknown fields and mismatched values
\* are errors; a field left out takes its default.
from_value(t) ==
  IF \E k \in DOMAIN t : k \notin DOMAIN ConfigSchema
  THEN Err("unknown field")
  ELSE IF \E k \in DOMAIN t : t[k] # ConfigSchema[k]
  THEN Err("invalid type")
  ELSE Ok([sorters |-> IF "sorters" \in DOMAIN t THEN "custom" ELSE "default"])

\* Faulty variant: a table that does not convert is replaced by the default.
ResolveConfigLenient(config) ==
  IF config # None /\ from_value(config[1]).ok THEN from_value(config[1])
  ELSE Ok(DefaultConfig)

\* util.rs:111-115: the configuration explore goes on with.
ResolveConfig(config) ==
  IF config # None THEN from_value(config[1]) ELSE Ok(DefaultConfig)

NodeNames == {<<"a">>, <<"b">>}

\* What explorer::explore may answer.
TraversalAnswers == {Err("io")} \cup {Ok(ns) : ns \in BSeq(NodeNames, 1)}

\* lua::serialize of the nodes: one table per node, under its field name.
serialize(nodes) ==
  LuaTable([i \in DOMAIN nodes |-> LuaTable([absolute_path |-> LuaString(nodes[i])])])

\* explore's body: the outcome and the invocations of the collaborator.
explore_func(path, config, answer) ==
  LET cfg == ResolveConfig(config)
  IN IF ~cfg.ok
     THEN [out |-> Raise(cfg.err), collab |-> <<>>]
     ELSE [out |-> IF answer.ok THEN Return(serialize(answer.v)) ELSE Raise(answer.err),
           collab |-> <<[path |-> path, config |-> cfg.v]>>]

(***************************************************************************)
(* Inputs.                                                                 *)
(***************************************************************************)
PathAlphabet == {SEP, DOT, "a"}

\* The paths of the documentation's examples.
DocPaths ==
  { <<"/", "f", "o", "o", "/", "b", "a", "r">>,
    <<"f", "o", "o", "/", "b", "a", "r">>,
    <<"f", "o", "o">> }

Paths == BSeq(PathAlphabet, MaxPathLen) \cup DocPaths

\* What std::env::current_dir() may give: an absolute directory, or an
\* error (the directory was removed).
Cwds == { <<SEP>>, <<SEP, "a">>, <<SEP, "a", SEP, "b">>, <<SEP, "t", "m", "p">> }

CwdStates == {None} \cup {Some(c) : c \in Cwds}

Environs == {{}, {"PATH"}}

QuoteAlphabet == {SQ, DQ, "\\", "$", " ", "a"}

DocQuotes == { <<"a", SQ, "b", DQ, "c">> }

QuoteInputs == BSeq(QuoteAlphabet, MaxQuoteLen) \cup DocQuotes

Programs == { <<"p", "w", "d">>, <<"n", "o">> }

ArgLists == {None, Some(<<>>), Some(<< <<"-", "c">> >>)}

ExplorePaths == { <<SEP, "t", "m", "p">>, <<"a">> }

Configs == {None} \cup {Some(t) : t \in ConfigTables}

AllOsAnswers == OsAnswers(MaxOutLen)

(***************************************************************************)
(* State.                                                                  *)
(***************************************************************************)
VARIABLES
  cwd,      \* the process's current working directory, as current_dir() sees it
  environ,  \* the process's environment (the variables set)
  pc,       \* the script: "script" (running) or "returned" (a call just returned)
  last,     \* the call that just returned: function, arguments, environment, outcome
  first,    \* history: the first call the script made, kept for comparison
  ncalls    \* history: how many calls the script has made

vars == <<cwd, environ, pc, last, first, ncalls>>

NoCall == [fn |-> "none"]

\* The external environment a call runs in: the process-wide resources and
\* the answer of the external party the call consults, if any.
Env(ext) == [cwd |-> cwd, environ |-> environ, ext |-> ext]

NoExt == [none |-> TRUE]

\* The script is running and calls the registered function fn.
Calls(fn) == pc = "script" /\ fn \in util

\* A call blocks the script until it returns; the closures capture nothing
\* and write nothing but their result.
Complete(fn, arg, ext, out, collab) ==
  /\ pc' = "returned"
  /\ last' = [fn |-> fn, arg |-> arg, env |-> Env(ext), out |-> out,
              collab |-> collab]
  /\ UNCHANGED <<cwd, environ>>

dirname(P) ==
  /\ Calls("dirname")
  /\ \E path \in P : Complete("dirname", path, NoExt, dirname_func(path), <<>>)

basename(P) ==
  /\ Calls("basename")
  /\ \E path \in P : Complete("basename", path, NoExt, basename_func(path), <<>>)

absolute(P) ==
  /\ Calls("absolute")
  /\ \E path \in P :
       Complete("absolute", path, NoExt, absolute_func(path, cwd), <<>>)

\* The call of explore with the outcome r of its body.
explore_completes(path, config, answer, r) ==
  Complete("explore", [path |-> path, config |-> config],
           IF r.collab = <<>> THEN NoExt ELSE answer, r.out, r.collab)

explore(P, C, A) ==
  /\ Calls("explore")
  /\ \E path \in P, config \in C, answer \in A :
       explore_completes(path, config, answer, explore_func(path, config, answer))

\* Faulty variant: the command is run by changing the process's working directory.
shell_execute_chdir(P, L, A) ==
  /\ Calls("shell_execute")
  /\ \E program \in P, args \in L, answer \in A :
       /\ pc' = "returned"
       /\ last' = [fn |-> "shell_execute",
                   arg |-> [program |-> program, args |-> args],
                   env |-> Env(answer), out |-> shell_execute_func(answer),
                   collab |-> <<>>]
       /\ cwd' = Some(<<SEP>>)
       /\ UNCHANGED environ

shell_execute(P, L, A) ==
  /\ Calls("shell_execute")
  /\ \E program \in P, args \in L, answer \in A :
       Complete("shell_execute", [program |-> program, args |-> args], answer,
                shell_execute_func(answer), <<>>)

shell_quote(Q) ==
  /\ Calls("shell_quote")
  /\ \E string \in Q :
       Complete("shell_quote", string, NoExt, shell_quote_func(string), <<>>)

\* The script takes the outcome and runs on.
Resume ==
  /\ pc = "returned"
  /\ pc' = "script"
  /\ last' = NoCall
  /\ UNCHANGED <<cwd, environ, first, ncalls>>

\* The host or the operating system changes the process-wide resources
\* while the script is not inside a call; not a step of the bridge.
EnvChange ==
  /\ pc = "script"
  /\ cwd' \in CwdStates
  /\ environ' \in Environs
  /\ <<cwd', environ'>> # <<cwd, environ>>
  /\ UNCHANGED <<pc, last, first, ncalls>>

Init ==
  /\ cwd \in CwdStates
  /\ environ \in Environs
  /\ pc = "script"
  /\ last = NoCall
  /\ first = NoCall
  /\ ncalls = 0

\* One call at a time, over the full input sets; the history is not kept.
NoHistory == UNCHANGED <<first, ncalls>>

Next ==
  \/ dirname(Paths) /\ NoHistory
  \/ basename(Paths) /\ NoHistory
  \/ absolute(Paths) /\ NoHistory
  \/ explore(ExplorePaths, Configs, TraversalAnswers) /\ NoHistory
  \/ shell_execute(Programs, ArgLists, AllOsAnswers) /\ NoHistory
  \/ shell_quote(QuoteInputs) /\ NoHistory
  \/ Resume
  \/ EnvChange

Spec == Init /\ [][Next]_vars

(***************************************************************************)
(* Sequences of calls, over smaller input sets, with the history kept.     *)
(***************************************************************************)
SeqLen == 1

MaxCalls == 3

SeqPaths == BSeq({SEP, "a"}, SeqLen)

SeqQuotes == BSeq({SQ, "a"}, SeqLen)

SeqPrograms == { <<"p", "w", "d">> }

SeqArgLists == {None}

SeqExplorePaths == { <<SEP, "t", "m", "p">> }

SeqConfigs == {None, Some([k \in {"bogus"} |-> "number"])}

SeqAnswers == {Err("NotFound")} \cup {Ok(o) : o \in Outputs(0)}

SeqTraversals == {Err("io"), Ok(<<>>)}

KeepHistory ==
  /\ ncalls < MaxCalls
  /\ ncalls' = ncalls + 1
  /\ first' = IF first = NoCall THEN last' ELSE first

NextSeq ==
  \/ dirname(SeqPaths) /\ KeepHistory
  \/ basename(SeqPaths) /\ KeepHistory
  \/ absolute(SeqPaths) /\ KeepHistory
  \/ explore(SeqExplorePaths, SeqConfigs, SeqTraversals) /\ KeepHistory
  \/ shell_execute(SeqPrograms, SeqArgLists, SeqAnswers) /\ KeepHistory
  \/ shell_quote(SeqQuotes) /\ KeepHistory
  \/ Resume
  \/ EnvChange

SpecSeq == Init /\ [][NextSeq]_vars

(***************************************************************************)
(* Reference notions the properties are stated with.                       *)
(***************************************************************************)
PureFunctions == {"dirname", "basename", "absolute", "shell_quote"}

Returned(fn) == pc = "returned" /\ last.fn = fn

\* The text a call returned, when it returned text.
IsText(out) == ~out.raised /\ out.value.kind = "string"

IsNil(out) == ~out.raised /\ out.value = LuaNil

\* --- POSIX shell quoting: reading one word, character by character. ---
\* acc: the value read so far; bare: a character other than a quoting
\* delimiter stood outside quotes; broken: the word did not stay one literal
\* word (an expansion, a word break, an unterminated quote).
ShAcc(value, bare, broken) == [value |-> value, bare |-> bare, broken |-> broken]

DqEscapable == {"$", DQ, "\\"}

RECURSIVE ShScan(_, _, _, _)
ShScan(w, i, mode, acc) ==
  IF i > Len(w) THEN [acc EXCEPT !.broken = acc.broken \/ mode # "none"]
  ELSE IF mode = "single"
  THEN IF w[i] = SQ THEN ShScan(w, i + 1, "none", acc)
       ELSE ShScan(w, i + 1, "single", [acc EXCEPT !.value = Append(acc.value, w[i])])
  ELSE IF mode = "double"
  THEN IF w[i] = DQ THEN ShScan(w, i + 1, "none", acc)
       ELSE IF w[i] = "$"
       THEN ShScan(w, i + 1, "double", [acc EXCEPT !.broken = TRUE])
       ELSE IF w[i] = "\\" /\ i < Len(w) /\ w[i + 1] \in DqEscapable
       THEN ShScan(w, i + 2, "double", [acc EXCEPT !.value = Append(acc.value, w[i + 1])])
       ELSE ShScan(w, i + 1, "double", [acc EXCEPT !.value = Append(acc.value, w[i])])
  ELSE IF w[i] = SQ THEN ShScan(w, i + 1, "single", acc)
  ELSE IF w[i] = DQ THEN ShScan(w, i + 1, "double", acc)
  ELSE IF w[i] = "\\"
  THEN IF i = Len(w) THEN ShScan(w, i + 1, "none", [acc EXCEPT !.broken = TRUE])
       ELSE ShScan(w, i + 2, "none",
                   [acc EXCEPT !.value = Append(acc.value, w[i + 1]), !.bare = TRUE])
  ELSE IF w[i] \in {"$", " "}
  THEN ShScan(w, i + 1, "none", [acc EXCEPT !.broken = TRUE, !.bare = TRUE])
  ELSE ShScan(w, i + 1, "none",
              [acc EXCEPT !.value = Append(acc.value, w[i]), !.bare = TRUE])

ShWord(w) == ShScan(w, 1, "none", ShAcc(<<>>, FALSE, FALSE))

ReadsBackAs(string, r) == ~r.broken /\ ~r.bare /\ r.value = string

\* --- Path text, by segments. ---
\* The segments of p that name something: not empty, not ".".
RECURSIVE NamedSegs(_)
NamedSegs(segs) ==
  IF segs = <<>> THEN <<>>
  ELSE (IF Head(segs) \in {<<>>, <<DOT>>} THEN <<>> ELSE <<Head(segs)>>)
       \o NamedSegs(Tail(segs))

\* How many components p has: its named segments, and a leading "." segment.
NumComps(p) ==
  Len(NamedSegs(Split(p))) + (IF Split(p)[1] = <<DOT>> THEN 1 ELSE 0)

IsPrefix(r, p) == Len(r) <= Len(p) /\ SubSeq(p, 1, Len(r)) = r

\* r ends with a component (or is empty, or the root).
EndsClean(r, segs) ==
  \/ r = <<>>
  \/ r = <<SEP>>
  \/ /\ segs[Len(segs)] # <<>>
     /\ (segs[Len(segs)] # <<DOT>> \/ Len(segs) = 1)

\* r is p without its last component.
IsParentOf(r, p) ==
  /\ IsPrefix(r, p)
  /\ NumComps(r) = NumComps(p) - 1
  /\ EndsClean(r, Split(r))

NoSeparator(p) == \A i \in DOMAIN p : p[i] # SEP

OnlySeparators(p) == p # <<>> /\ \A i \in DOMAIN p : p[i] = SEP

FooBar == <<"/", "f", "o", "o", "/", "b", "a", "r">>

\* --- Lexical normalisation of an absolute path. ---
RECURSIVE NormStack(_, _)
NormStack(segs, stack) ==
  IF segs = <<>> THEN stack
  ELSE IF Head(segs) \in {<<>>, <<DOT>>} THEN NormStack(Tail(segs), stack)
  ELSE IF Head(segs) = <<DOT, DOT>>
  THEN NormStack(Tail(segs),
                 IF stack = <<>> THEN stack ELSE SubSeq(stack, 1, Len(stack) - 1))
  ELSE NormStack(Tail(segs), Append(stack, Head(segs)))

RECURSIVE Slashed(_)
Slashed(stack) ==
  IF stack = <<>> THEN <<>> ELSE <<SEP>> \o Head(stack) \o Slashed(Tail(stack))

RootIfEmpty(t) == IF t = <<>> THEN <<SEP>> ELSE t

Normalize(s) == RootIfEmpty(Slashed(NormStack(Split(s), <<>>)))

(***************************************************************************)
(* The properties.                                                         *)
(***************************************************************************)

\* C1: the output of shell_quote, read as one word under the POSIX
\* single-quote and double-quote rules, is exactly the input, and no
\* character other than a quoting delimiter stands outside quotes.
C1_QuoteRoundTrip ==
  Returned("shell_quote") =>
    /\ IsText(last.out)
    /\ ReadsBackAs(last.arg, ShWord(last.out.value.value))

C1_Witness ==
  /\ Returned("shell_quote")
  /\ \E i \in DOMAIN last.arg : last.arg[i] = SQ
  /\ \E i \in DOMAIN last.arg : last.arg[i] = DQ
  /\ \E i \in DOMAIN last.arg : last.arg[i] = "\\"

\* C2: dirname, basename, absolute and shell_quote never raise an error,
\* whatever the argument and the environment (the working directory may be
\* undeterminable).
C2_PureNeverFail ==
  (pc = "returned" /\ last.fn \in PureFunctions) => ~last.out.raised

\* C3 as stated: dirname returns absence for a root path and for a bare name
\* with no separator.
C3_Original ==
  (Returned("dirname") /\ last.arg # <<>>
     /\ (OnlySeparators(last.arg) \/ NoSeparator(last.arg)))
  => IsNil(last.out)

\* C3 amended: dirname never fails; it returns absence exactly when the path
\* has no component other than the root (the empty path, "/"); for a bare
\* name it returns the empty text; otherwise it returns the path without
\* its last component, and dirname("/foo/bar") is "/foo".
C3_Dirname ==
  Returned("dirname") =>
    /\ ~last.out.raised
    /\ IsNil(last.out) <=> (last.arg = <<>> \/ NumComps(last.arg) = 0)
    /\ (last.arg # <<>> /\ NoSeparator(last.arg))
         => last.out.value = LuaString(<<>>)
    /\ ~IsNil(last.out)
         => IsText(last.out) /\ IsParentOf(last.out.value.value, last.arg)
    /\ last.arg = FooBar => last.out.value = LuaString(<<"/", "f", "o", "o">>)

C3_Witness ==
  /\ Returned("dirname")
  /\ last.arg = <<"f", "o", "o">>
  /\ last.out.value = LuaString(<<>>)

\* C4 as stated: basename returns absence only when the path has no
\* component; a path ending in ".." still yields its final component.
C4_Original ==
  (Returned("basename") /\ IsNil(last.out))
  => \A i \in DOMAIN Split(last.arg) : Split(last.arg)[i] \in {<<>>, <<DOT>>}

\* The last of the segments, ".." when there is none.
LastOf(segs) == IF segs = <<>> THEN <<DOT, DOT>> ELSE segs[Len(segs)]

\* C4 amended: basename never fails; it returns the last named segment of
\* the path (trailing separators and "." segments are passed over), and
\* absence when there is none or when that segment is ".."; basename of
\* "/foo/bar" is "bar".
C4_Basename ==
  Returned("basename") =>
    /\ ~last.out.raised
    /\ last.out.value =
         (IF LastOf(NamedSegs(Split(last.arg))) = <<DOT, DOT>> THEN LuaNil
          ELSE LuaString(LastOf(NamedSegs(Split(last.arg)))))
    /\ last.arg = FooBar => last.out.value = LuaString(<<"b", "a", "r">>)

C4_Witness ==
  /\ Returned("basename")
  /\ last.arg = <<"a", SEP, DOT, DOT>>
  /\ IsNil(last.out)

\* The keys of a process result, and the table a call returned.
ResultKeys == {"stdout", "stderr", "returncode"}

IsTable(out) == ~out.raised /\ out.value.kind = "table"

IsProcessResult(out) ==
  /\ IsTable(out)
  /\ {"stdout", "stderr"} \subseteq DOMAIN out.value.fields
  /\ DOMAIN out.value.fields \subseteq ResultKeys

\* C5: shell_execute raises an error, and returns no table, exactly when the
\* program could not be launched; once launched it returns a process result
\* whatever the exit status and whatever bytes were captured.
C5_SpawnOrResult ==
  Returned("shell_execute") =>
    /\ ~last.env.ext.ok
         => /\ last.out.raised
            /\ last.out.value.message \in SpawnErrors
    /\ last.env.ext.ok => IsProcessResult(last.out)

C5_Witness ==
  /\ Returned("shell_execute")
  /\ last.env.ext.ok
  /\ last.env.ext.v.status = Exited(1)
  /\ \E i \in DOMAIN last.env.ext.v.stdout : last.env.ext.v.stdout[i] = BAD
  /\ IsProcessResult(last.out)

IsTextValue(v) ==
  /\ v.kind = "string"
  /\ \A i \in DOMAIN v.value : v.value[i] # BAD

\* C9: in every process result, returncode is absent exactly when the child
\* ended without an exit code (a signal), it is the child's exit code as an
\* integer otherwise, and stdout and stderr are present as text.
C9_ReturnCode ==
  (Returned("shell_execute") /\ ~last.out.raised) =>
    /\ IsProcessResult(last.out)
    /\ "returncode" \notin DOMAIN last.out.value.fields
         <=> last.env.ext.v.status.kind = "signaled"
    /\ last.env.ext.v.status.kind = "exited"
         => last.out.value.fields["returncode"]
              = LuaInteger(last.env.ext.v.status.n)
    /\ IsTextValue(last.out.value.fields["stdout"])
    /\ IsTextValue(last.out.value.fields["stderr"])

C9_Witness ==
  /\ Returned("shell_execute")
  /\ ~last.out.raised
  /\ last.env.ext.v.status.kind = "signaled"
  /\ "returncode" \notin DOMAIN last.out.value.fields

\* A table fits the configuration schema: known fields, values of their kind.
FitsSchema(t) ==
  \A k \in DOMAIN t : k \in DOMAIN ConfigSchema /\ t[k] = ConfigSchema[k]

ConversionErrors == {"unknown field", "invalid type"}

\* C6: when explore is given a table that does not fit the schema, it raises
\* a conversion error and the traversal collaborator is not invoked; the
\* collaborator is invoked only with the default configuration (no table
\* given) or with the conversion of a table that fits.
C6_FailFast ==
  Returned("explore") =>
    /\ (last.arg.config # None /\ ~FitsSchema(last.arg.config[1]))
         => /\ last.out.raised
            /\ last.out.value.message \in ConversionErrors
            /\ last.collab = <<>>
    /\ last.collab # <<>>
         => /\ Len(last.collab) = 1
            /\ last.collab[1].path = last.arg.path
            /\ \/ last.arg.config = None /\ last.collab[1].config = DefaultConfig
               \/ /\ last.arg.config # None
                  /\ FitsSchema(last.arg.config[1])
                  /\ from_value(last.arg.config[1]) = Ok(last.collab[1].config)

C6_Witness ==
  /\ Returned("explore")
  /\ last.arg.config # None
  /\ "bogus" \in DOMAIN last.arg.config[1]
  /\ last.out.raised
  /\ last.collab = <<>>

\* The text absolute is to return for path p under working directory d.
Absolutized(p, d) ==
  Normalize(IF p # <<>> /\ p[1] = SEP THEN p ELSE d \o <<SEP>> \o p)

\* C7: with the working directory known, absolute(p) is the lexical
\* normalisation of p when p is absolute and of cwd/p when p is relative; it
\* is a function of p and the working directory alone.
C7_Absolute ==
  (Returned("absolute") /\ last.env.cwd # None) =>
    last.out = Return(LuaString(Absolutized(last.arg, last.env.cwd[1])))

C7_Witness ==
  /\ Returned("absolute")
  /\ last.env.cwd = Some(<<SEP, "a", SEP, "b">>)
  /\ last.arg = <<DOT, DOT, SEP, "a">>
  /\ last.out = Return(LuaString(<<SEP, "a", SEP, "a">>))

\* How many single quotes s[1..i] holds.
RECURSIVE CountSQ(_, _)
CountSQ(s, i) ==
  IF i = 0 THEN 0 ELSE (IF s[i] = SQ THEN 1 ELSE 0) + CountSQ(s, i - 1)

\* Where the image of s[i] starts in the quoted text, each earlier single
\* quote taking k places.
ImageAt(s, i, k) == 1 + i + (k - 1) * CountSQ(s, i - 1)

\* o is s in single quotes, each single quote of s replaced by esc.
QuotedWith(o, s, esc) ==
  /\ Len(o) = Len(s) + 2 + (Len(esc) - 1) * CountSQ(s, Len(s))
  /\ o[1] = SQ
  /\ o[Len(o)] = SQ
  /\ \A i \in DOMAIN s :
       IF s[i] = SQ
       THEN SubSeq(o, ImageAt(s, i, Len(esc)), ImageAt(s, i, Len(esc)) + Len(esc) - 1) = esc
       ELSE o[ImageAt(s, i, Len(esc))] = s[i]

\* C8 as stated: every embedded single quote is replaced by a sequence of
\* four characters.
C8_Original ==
  Returned("shell_quote") =>
    Len(last.out.value.value)
      = Len(last.arg) + 2 + (4 - 1) * CountSQ(last.arg, Len(last.arg))

\* C8 amended: shell_quote(input) is input between one leading and one
\* trailing single quote, every embedded single quote replaced by the five
\* characters ' " ' " ' and every other character copied; the empty input
\* gives ''.
C8_QuoteShape ==
  Returned("shell_quote") =>
    /\ IsText(last.out)
    /\ QuotedWith(last.out.value.value, last.arg, <<SQ, DQ, SQ, DQ, SQ>>)
    /\ last.arg = <<>> => last.out.value.value = <<SQ, SQ>>
    /\ last.arg = <<"a", SQ, "b", DQ, "c">>
         => last.out.value.value
              = <<SQ, "a", SQ, DQ, SQ, DQ, SQ, "b", DQ, "c", SQ>>

C8_Witness ==
  /\ Returned("shell_quote")
  /\ last.arg = <<"a", SQ, "b", DQ, "c">>
  /\ Len(last.out.value.value) = 11

\* A call after the first one, in the external environment of the first.
SameCallAsFirst ==
  /\ pc = "returned"
  /\ ncalls > 1
  /\ last.fn = first.fn
  /\ last.arg = first.arg
  /\ last.env = first.env

SameOutcomeAsFirst ==
  SameCallAsFirst => (last.out = first.out /\ last.collab = first.collab)

====
